---- MODULE Spec2Model ----
(***************************************************************************)
(* Model of the aider API server (aider_api.py): one request to            *)
(* POST /run-aider, the temporary workspace it materializes, the child     *)
(* process it spawns and the drain of the child's stdout/stderr in         *)
(* streaming (SSE) and aggregate (JSON) mode.                              *)
(*                                                                         *)
(* Text is a sequence of tokens.  A token is one character class or one    *)
(* of the two literal substrings the classifier searches for.  Paths are   *)
(* sequences of components counted from the filesystem root.               *)
(***************************************************************************)
EXTENDS Integers, Sequences, FiniteSets, TLC

\* ------------------------------------------------------------------ bounds
MaxFiles == 2      \* entries in the request's files mapping
MaxOps   == 3      \* operations (write / close) in the child's program
LIMIT    == 2      \* StreamReader line limit, in tokens (asyncio: 2**16 bytes)
PipeCap  == 1      \* tokens the OS pipe holds beyond the reader's buffer

\* the reader's buffer pauses the transport above 2*limit; the pipe adds PipeCap
Cap == 2 * LIMIT + PipeCap

\* ------------------------------------------------------------------ tokens
TROUBLESHOOTING == "https://aider.chat/docs/troubleshooting"
MODELS_AND_KEYS == "models-and-keys.html"
NL  == "\n"
SP  == " "
X   == "x"
BAD == "0xff"      \* a byte that is not valid UTF-8

LAUNCH_ERROR  == "Error: Failed to start aider process: "
PROCESS_ERROR == "Failed to process output: "
SOMETHING_WRONG == "something went wrong"
KEY_NOT_FOUND   == "something went wrong, AI key or model not found"
NoError == "<no error field>"
MISSING == "<missing>"

Channels == {"stdout", "stderr"}
Other(ch) == IF ch = "stdout" THEN "stderr" ELSE "stdout"

Min(a, b) == IF a < b THEN a ELSE b
Range(s) == {s[i] : i \in 1..Len(s)}

\* ------------------------------------------------------------ text helpers
\* str.__contains__: pat occurs in text as a contiguous run
Contains(text, pat) ==
    \E i \in 1..(Len(text) - Len(pat) + 1) : SubSeq(text, i, i + Len(pat) - 1) = pat

Whitespace == {SP, NL}

\* str.rstrip(): drop every trailing whitespace character
RECURSIVE RStrip(_)
RStrip(s) ==
    IF s = <<>> THEN <<>>
    ELSE IF s[Len(s)] \in Whitespace THEN RStrip(SubSeq(s, 1, Len(s) - 1))
    ELSE s

\* index of the first NL in s, 0 when there is none (bytearray.find + 1)
RECURSIVE FindNL(_, _)
FindNL(s, i) ==
    IF i > Len(s) THEN 0
    ELSE IF s[i] = NL THEN i
    ELSE FindNL(s, i + 1)

\* str.splitlines(True): the lines of s, each keeping its line end
RECURSIVE SplitLines(_)
SplitLines(s) ==
    IF s = <<>> THEN <<>>
    ELSE LET i == FindNL(s, 1)
         IN  IF i = 0 THEN <<s>>
             ELSE <<SubSeq(s, 1, i)>> \o SplitLines(SubSeq(s, i + 1, Len(s)))

\* "".join(lines)
RECURSIVE Join(_)
Join(lines) ==
    IF lines = <<>> THEN <<>> ELSE Head(lines) \o Join(Tail(lines))

\* bytes.decode(): raises UnicodeDecodeError on an invalid byte
Decode(data) == [ok |-> BAD \notin Range(data), text |-> data]

KEY_SUFFIX == ", AI key or model not found"

\* (variant) the keys rule tested beside the troubleshooting rule, not inside it
Classify_Unnested(raw_stdout) ==
    IF Contains(raw_stdout, <<TROUBLESHOOTING>>)
    THEN IF Contains(raw_stdout, <<MODELS_AND_KEYS>>)
         THEN KEY_NOT_FOUND
         ELSE SOMETHING_WRONG
    ELSE IF Contains(raw_stdout, <<MODELS_AND_KEYS>>)
         THEN KEY_SUFFIX
         ELSE NoError

\* the two-rule classifier applied to the final raw-stdout
Classify(raw_stdout) ==
    IF Contains(raw_stdout, <<TROUBLESHOOTING>>)
    THEN IF Contains(raw_stdout, <<MODELS_AND_KEYS>>)
         THEN KEY_NOT_FOUND
         ELSE SOMETHING_WRONG
    ELSE NoError

\* the result dict: raw-stdout, raw-stderr and the optional error
MakeResult(stdout_lines, stderr_lines) ==
    [stdout |-> Join(stdout_lines),
     stderr |-> Join(stderr_lines),
     error  |-> Classify(Join(stdout_lines))]

NoResult == [stdout |-> <<>>, stderr |-> <<>>, error |-> NoError]

\* ------------------------------------------------------------- filesystem
IsPrefix(p, q) == Len(p) <= Len(q) /\ SubSeq(q, 1, Len(p)) = p
Parent(p) == SubSeq(p, 1, Len(p) - 1)

\* the request's file names, as (absolute?, components)
F_test == [abs |-> FALSE, parts |-> <<"test.py">>]
F_sub  == [abs |-> FALSE, parts |-> <<"pkg", "mod.py">>]
F_up   == [abs |-> FALSE, parts |-> <<"..", "x">>]
F_abs  == [abs |-> TRUE,  parts |-> <<"tmp", "evil">>]
FileNames == {F_test, F_sub, F_up, F_abs}
CONTENT == "def hello()"

\* os.path.join(temp_dir, filename): an absolute second part discards the first
PathJoin(dir, f) == IF f.abs THEN f.parts ELSE dir \o f.parts

\* what open() resolves the joined path to: ".." steps to the parent
RECURSIVE Resolve(_, _)
Resolve(done, rest) ==
    IF rest = <<>> THEN done
    ELSE IF Head(rest) = ".."
         THEN Resolve(IF done = <<>> THEN <<>> ELSE Parent(done), Tail(rest))
         ELSE Resolve(Append(done, Head(rest)), Tail(rest))

RootDir == <<>>
TmpRoot == <<"tmp">>
TempDirName == "aider_tmp1"

\* open(file_path, 'w') + f.write(content): needs the parent directory to exist
\* fsys = [dirs, files]; files is a set of [path, content]
WriteFile(fsys, path, content) ==
    LET p == Resolve(<<>>, path)
    IN  IF p # <<>> /\ Parent(p) \in fsys.dirs /\ p \notin fsys.dirs
        THEN [ok |-> TRUE,
              fs |-> [dirs  |-> fsys.dirs,
                      files |-> {f \in fsys.files : f.path # p}
                                \cup {[path |-> p, content |-> content]}]]
        ELSE [ok |-> FALSE, fs |-> fsys]

\* the for loop over files.items(): stops at the first open() that raises
RECURSIVE WriteFiles(_, _, _)
WriteFiles(fsys, dir, items) ==
    IF items = <<>> THEN [ok |-> TRUE, fs |-> fsys]
    ELSE LET w == WriteFile(fsys, PathJoin(dir, Head(items).name), Head(items).content)
         IN  IF w.ok THEN WriteFiles(w.fs, dir, Tail(items)) ELSE w

\* (variant) os.rmdir in place of rmtree: a directory that holds files stays
Cleanup_RmdirOnly(fsys, dir) ==
    IF \E f \in fsys.files : IsPrefix(dir, f.path)
    THEN fsys
    ELSE [dirs |-> fsys.dirs \ {dir}, files |-> fsys.files]

\* TemporaryDirectory.__exit__: shutil.rmtree of the directory
Cleanup(fsys, dir) ==
    [dirs  |-> {d \in fsys.dirs : ~IsPrefix(dir, d)},
     files |-> {f \in fsys.files : ~IsPrefix(dir, f.path)}]

\* tempfile.mkdtemp(): a new directory under the temp root
MkDTemp(fsys, dir) == [dirs |-> fsys.dirs \cup {dir}, files |-> fsys.files]

\* ---------------------------------------------------------------- request
\* AiderRequest: files is Optional (None, or a dict in insertion order)
RECURSIVE SeqsUpTo(_, _)
SeqsUpTo(S, n) ==
    IF n = 0 THEN {<<>>}
    ELSE LET shorter == SeqsUpTo(S, n - 1)
         IN  shorter \cup {Append(q, x) : q \in {r \in shorter : Len(r) = n - 1},
                                          x \in S}
FileMaps ==
    {[present |-> TRUE, items |-> [i \in 1..Len(q) |-> [name |-> q[i], content |-> CONTENT]]] :
        q \in {r \in SeqsUpTo(FileNames, MaxFiles) :
                  \A i, j \in 1..Len(r) : i # j => r[i] # r[j]}}
NoFiles == [present |-> FALSE, items |-> <<>>]

\* the toggles at their defaults, and each at the other value
Toggles ==
    {[auto_commits |-> TRUE, dirty_commits |-> TRUE, dry_run |-> FALSE],
     [auto_commits |-> FALSE, dirty_commits |-> FALSE, dry_run |-> TRUE]}

Requests ==
    {[message |-> m, files |-> f, auto_commits |-> t.auto_commits,
      dirty_commits |-> t.dirty_commits, dry_run |-> t.dry_run,
      root |-> ".", stream |-> s] :
        m \in {MISSING, "add a docstring"}, f \in FileMaps \cup {NoFiles},
        t \in Toggles, s \in BOOLEAN}

NoRequest ==
    [message |-> MISSING, files |-> NoFiles, auto_commits |-> TRUE,
     dirty_commits |-> TRUE, dry_run |-> FALSE, root |-> ".", stream |-> TRUE]

\* pydantic validation of the body against AiderRequest: message is required
Validate(r) == r.message # MISSING

\* bool(files): None and {} are both falsy
Truthy(files) == files.present /\ files.items # <<>>

\* (variant) the dirty-commits flag chosen by the auto-commits toggle
BuildCmd_CopiedToggle(r, dir) ==
    [exe   |-> "aider",
     flags |-> <<"--message", r.message,
                 IF r.auto_commits THEN "--auto-commits" ELSE "--no-auto-commits",
                 IF r.auto_commits THEN "--dirty-commits" ELSE "--no-dirty-commits",
                 IF r.dry_run THEN "--dry-run" ELSE "--no-dry-run",
                 "--no-show-model-warnings",
                 "--yes">>,
     paths |-> IF Truthy(r.files)
               THEN [i \in 1..Len(r.files.items) |-> PathJoin(dir, r.files.items[i].name)]
               ELSE <<>>]

\* the argument vector: the flags, then one joined path per files entry
BuildCmd(r, dir) ==
    [exe   |-> "aider",
     flags |-> <<"--message", r.message,
                 IF r.auto_commits THEN "--auto-commits" ELSE "--no-auto-commits",
                 IF r.dirty_commits THEN "--dirty-commits" ELSE "--no-dirty-commits",
                 IF r.dry_run THEN "--dry-run" ELSE "--no-dry-run",
                 "--no-show-model-warnings",
                 "--yes">>,
     paths |-> IF Truthy(r.files)
               THEN [i \in 1..Len(r.files.items) |-> PathJoin(dir, r.files.items[i].name)]
               ELSE <<>>]
NoCmd == [exe |-> "", flags |-> <<>>, paths |-> <<>>]

\* ---------------------------------------------------------- child process
StdoutChunks == {<<X, SP, NL>>, <<TROUBLESHOOTING, NL>>, <<MODELS_AND_KEYS>>}
StderrChunks == {<<X, SP, NL>>, <<BAD>>}

Ops ==
    {[op |-> "write", ch |-> "stdout", data |-> c] : c \in StdoutChunks}
    \cup {[op |-> "write", ch |-> "stderr", data |-> c] : c \in StderrChunks}
    \cup {[op |-> "close", ch |-> c, data |-> <<>>] : c \in Channels}

\* a program never uses a channel it has closed
WellFormed(p) ==
    \A i, j \in 1..Len(p) : (i < j /\ p[i].op = "close") => p[j].ch # p[i].ch

Plans == {p \in UNION {[1..n -> Ops] : n \in 0..MaxOps} : WellFormed(p)}

\* the bytes the child has written on ch after its first n operations
RECURSIVE WrittenBy(_, _, _)
WrittenBy(p, n, ch) ==
    IF n = 0 THEN <<>>
    ELSE WrittenBy(p, n - 1, ch)
         \o (IF p[n].op = "write" /\ p[n].ch = ch THEN p[n].data ELSE <<>>)

\* ------------------------------------------------------------ StreamReader
Pending == [st |-> "pending", data |-> <<>>]
Data(d) == [st |-> "data", data |-> d]

\* index of the last NL in s, 0 when there is none (bytearray.rfind + 1)
RECURSIVE FindLastNL(_, _)
FindLastNL(s, i) ==
    IF i < 1 THEN 0
    ELSE IF s[i] = NL THEN i
    ELSE FindLastNL(s, i - 1)

\* (variant) the separator searched from the end of the buffer: one read
\* returns everything up to the last line end
ReadLineOf_Last(b, eof) ==
    LET i == FindLastNL(b, Len(b))
    IN  IF i > 0
        THEN [st |-> "data", data |-> SubSeq(b, 1, i), rest |-> SubSeq(b, i + 1, Len(b))]
        ELSE IF Len(b) > LIMIT
             THEN [st |-> "raised", data |-> <<>>, rest |-> <<>>]
             ELSE IF eof
                  THEN [st |-> "data", data |-> b, rest |-> <<>>]
                  ELSE [st |-> "wait", data |-> <<>>, rest |-> b]

\* StreamReader.readline() on buffer b (eof: the write end is closed).
\* st = "wait": the read stays suspended; "data": it returns data (empty at
\* end of stream); "raised": ValueError, the line is longer than the limit.
\* rest is the buffer the call leaves behind.
ReadLineOf(b, eof) ==
    LET i == FindNL(b, 1)
    IN  IF i > 0
        THEN IF i - 1 > LIMIT
             THEN [st |-> "raised", data |-> <<>>, rest |-> SubSeq(b, i + 1, Len(b))]
             ELSE [st |-> "data", data |-> SubSeq(b, 1, i), rest |-> SubSeq(b, i + 1, Len(b))]
        ELSE IF Len(b) > LIMIT
             THEN [st |-> "raised", data |-> <<>>, rest |-> <<>>]
             ELSE IF eof
                  THEN [st |-> "data", data |-> b, rest |-> <<>>]
                  ELSE [st |-> "wait", data |-> <<>>, rest |-> b]

\* one round of StreamReader.read(-1): read(limit) takes at most LIMIT tokens
ReadBlockOf(b) ==
    [data |-> SubSeq(b, 1, Min(LIMIT, Len(b))),
     rest |-> SubSeq(b, Min(LIMIT, Len(b)) + 1, Len(b))]

\* ------------------------------------------------------------------ events
Progress(type, line) ==
    [event |-> "progress", type |-> type, content |-> line, result |-> NoResult]
Complete(result) ==
    [event |-> "complete", type |-> "", content |-> <<>>, result |-> result]
ErrorEvent ==
    [event |-> "error", type |-> "", content |-> <<PROCESS_ERROR>>, result |-> NoResult]
\* what EventSourceResponse sends for a plain string item
Message(text) ==
    [event |-> "message", type |-> "", content |-> <<text>>, result |-> NoResult]

\* the result dict returned when create_subprocess_exec raises
LaunchFailure == [stdout |-> <<>>, stderr |-> <<LAUNCH_ERROR, NL>>, error |-> NoError]

\* iterating the dict (EventSourceResponse given the dict) yields its keys
DictKeys(result) ==
    <<"raw-stdout", "raw-stderr">>
    \o (IF result.error = NoError THEN <<>> ELSE <<"error">>)

\* (variant) the except branch of the aggregate loop breaks without recording
\* the failure
AggregatePass_Silent(sd, ed, so_lines, se_lines) ==
    LET so_dec == Decode(sd.data)
        se_dec == Decode(ed.data)
        so1 == IF sd.data # <<>> THEN so_lines \o SplitLines(so_dec.text) ELSE so_lines
        se1 == IF ed.data # <<>> THEN se_lines \o SplitLines(se_dec.text) ELSE se_lines
    IN  IF sd.data # <<>> /\ ~so_dec.ok
        THEN [so |-> so_lines, se |-> se_lines, brk |-> TRUE]
        ELSE IF ed.data # <<>> /\ ~se_dec.ok
        THEN [so |-> so1, se |-> se_lines, brk |-> TRUE]
        ELSE [so |-> so1, se |-> se1, brk |-> sd.data = <<>> /\ ed.data = <<>>]

\* (variant) `or` for `and`: the loop ends when either read returns nothing
GeneratorPass_EitherEmpty(sd, ed, so_lines, se_lines) ==
    IF sd.st = "raised" \/ ed.st = "raised"
    THEN [events |-> <<ErrorEvent>>, so |-> so_lines, se |-> se_lines, brk |-> TRUE]
    ELSE
    LET so_dec == Decode(sd.data)
        se_dec == Decode(ed.data)
        so_line == RStrip(so_dec.text)
        se_line == RStrip(se_dec.text)
        so1 == IF sd.data # <<>> THEN Append(so_lines, so_line \o <<NL>>) ELSE so_lines
        se1 == IF ed.data # <<>> THEN Append(se_lines, se_line \o <<NL>>) ELSE se_lines
        ev1 == IF sd.data # <<>> THEN <<Progress("stdout", so_line)>> ELSE <<>>
        ev2 == IF ed.data # <<>> THEN <<Progress("stderr", se_line)>> ELSE <<>>
    IN  IF sd.data # <<>> /\ ~so_dec.ok
        THEN [events |-> <<ErrorEvent>>, so |-> so_lines, se |-> se_lines, brk |-> TRUE]
        ELSE IF ed.data # <<>> /\ ~se_dec.ok
        THEN [events |-> ev1 \o <<ErrorEvent>>, so |-> so1, se |-> se_lines, brk |-> TRUE]
        ELSE IF sd.data = <<>> \/ ed.data = <<>>
        THEN [events |-> ev1 \o ev2 \o <<Complete(MakeResult(so1, se1))>>,
              so |-> so1, se |-> se1, brk |-> TRUE]
        ELSE [events |-> ev1 \o ev2, so |-> so1, se |-> se1, brk |-> FALSE]

\* (variant) the line kept for the final result is the line as read, not
\* the stripped line plus a line end
GeneratorPass_RawLines(sd, ed, so_lines, se_lines) ==
    IF sd.st = "raised" \/ ed.st = "raised"
    THEN [events |-> <<ErrorEvent>>, so |-> so_lines, se |-> se_lines, brk |-> TRUE]
    ELSE
    LET so_dec == Decode(sd.data)
        se_dec == Decode(ed.data)
        so_line == RStrip(so_dec.text)
        se_line == RStrip(se_dec.text)
        so1 == IF sd.data # <<>> THEN Append(so_lines, so_dec.text) ELSE so_lines
        se1 == IF ed.data # <<>> THEN Append(se_lines, se_dec.text) ELSE se_lines
        ev1 == IF sd.data # <<>> THEN <<Progress("stdout", so_line)>> ELSE <<>>
        ev2 == IF ed.data # <<>> THEN <<Progress("stderr", se_line)>> ELSE <<>>
    IN  IF sd.data # <<>> /\ ~so_dec.ok
        THEN [events |-> <<ErrorEvent>>, so |-> so_lines, se |-> se_lines, brk |-> TRUE]
        ELSE IF ed.data # <<>> /\ ~se_dec.ok
        THEN [events |-> ev1 \o <<ErrorEvent>>, so |-> so1, se |-> se_lines, brk |-> TRUE]
        ELSE IF sd.data = <<>> /\ ed.data = <<>>
        THEN [events |-> <<Complete(MakeResult(so1, se1))>>, so |-> so1, se |-> se1,
              brk |-> TRUE]
        ELSE [events |-> ev1 \o ev2, so |-> so1, se |-> se1, brk |-> FALSE]

\* (variant) the except branch yields its error event and does not break
GeneratorPass_NoBreak(sd, ed, so_lines, se_lines) ==
    IF sd.st = "raised" \/ ed.st = "raised"
    THEN [events |-> <<ErrorEvent>>, so |-> so_lines, se |-> se_lines, brk |-> FALSE]
    ELSE
    LET so_dec == Decode(sd.data)
        se_dec == Decode(ed.data)
        so_line == RStrip(so_dec.text)
        se_line == RStrip(se_dec.text)
        so1 == IF sd.data # <<>> THEN Append(so_lines, so_line \o <<NL>>) ELSE so_lines
        se1 == IF ed.data # <<>> THEN Append(se_lines, se_line \o <<NL>>) ELSE se_lines
        ev1 == IF sd.data # <<>> THEN <<Progress("stdout", so_line)>> ELSE <<>>
        ev2 == IF ed.data # <<>> THEN <<Progress("stderr", se_line)>> ELSE <<>>
    IN  IF sd.data # <<>> /\ ~so_dec.ok
        THEN [events |-> <<ErrorEvent>>, so |-> so_lines, se |-> se_lines, brk |-> FALSE]
        ELSE IF ed.data # <<>> /\ ~se_dec.ok
        THEN [events |-> ev1 \o <<ErrorEvent>>, so |-> so1, se |-> se_lines, brk |-> FALSE]
        ELSE IF sd.data = <<>> /\ ed.data = <<>>
        THEN [events |-> <<Complete(MakeResult(so1, se1))>>, so |-> so1, se |-> se1,
              brk |-> TRUE]
        ELSE [events |-> ev1 \o ev2, so |-> so1, se |-> se1, brk |-> FALSE]

\* one pass of the body of event_generator's while loop after gather returned
\* (or raised): the events it yields, the line lists, and whether it breaks
GeneratorPass(sd, ed, so_lines, se_lines) ==
    IF sd.st = "raised" \/ ed.st = "raised"
    THEN [events |-> <<ErrorEvent>>, so |-> so_lines, se |-> se_lines, brk |-> TRUE]
    ELSE
    LET so_dec == Decode(sd.data)
        se_dec == Decode(ed.data)
        so_line == RStrip(so_dec.text)
        se_line == RStrip(se_dec.text)
        so1 == IF sd.data # <<>> THEN Append(so_lines, so_line \o <<NL>>) ELSE so_lines
        se1 == IF ed.data # <<>> THEN Append(se_lines, se_line \o <<NL>>) ELSE se_lines
        ev1 == IF sd.data # <<>> THEN <<Progress("stdout", so_line)>> ELSE <<>>
        ev2 == IF ed.data # <<>> THEN <<Progress("stderr", se_line)>> ELSE <<>>
    IN  IF sd.data # <<>> /\ ~so_dec.ok
        THEN [events |-> <<ErrorEvent>>, so |-> so_lines, se |-> se_lines, brk |-> TRUE]
        ELSE IF ed.data # <<>> /\ ~se_dec.ok
        THEN [events |-> ev1 \o <<ErrorEvent>>, so |-> so1, se |-> se_lines, brk |-> TRUE]
        ELSE IF sd.data = <<>> /\ ed.data = <<>>
        THEN [events |-> <<Complete(MakeResult(so1, se1))>>, so |-> so1, se |-> se1,
              brk |-> TRUE]
        ELSE [events |-> ev1 \o ev2, so |-> so1, se |-> se1, brk |-> FALSE]

AGG_ERROR_LINE == <<"Error: Failed to process output: ", NL>>

\* one pass of the body of the aggregate while loop after gather returned
AggregatePass(sd, ed, so_lines, se_lines) ==
    LET so_dec == Decode(sd.data)
        se_dec == Decode(ed.data)
        so1 == IF sd.data # <<>> THEN so_lines \o SplitLines(so_dec.text) ELSE so_lines
        se1 == IF ed.data # <<>> THEN se_lines \o SplitLines(se_dec.text) ELSE se_lines
    IN  IF sd.data # <<>> /\ ~so_dec.ok
        THEN [so |-> so_lines, se |-> Append(se_lines, AGG_ERROR_LINE), brk |-> TRUE]
        ELSE IF ed.data # <<>> /\ ~se_dec.ok
        THEN [so |-> so1, se |-> Append(se_lines, AGG_ERROR_LINE), brk |-> TRUE]
        ELSE [so |-> so1, se |-> se1, brk |-> sd.data = <<>> /\ ed.data = <<>>]

\* ------------------------------------------------------------------- state
VARIABLES
    req,            \* the request being handled
    pc,             \* where the handling stands: idle, handler, spawning, drain, wait, done
    status,         \* HTTP status of the response, 0 while there is none
    body,           \* the JSON body of an aggregate response
    events,         \* the SSE events sent so far
    consumer,       \* the caller of a streaming response: none, connected, gone
    fs,             \* the filesystem: [dirs, files]
    temp_dir,       \* the request's temporary directory, <<>> before it is made
    cmd,            \* the argument vector handed to create_subprocess_exec
    child,          \* the child process: none, failed, running, exited
    plan,           \* the child's program
    cpos,           \* the child's next operation
    closed,         \* per channel: the child has closed its end
    buf,            \* per channel: bytes written and not yet read
    got,            \* per channel: the pending or finished read of this gather
    stdout_lines, stderr_lines,   \* the accumulated lines
    waited,         \* process.wait() has returned
    ws              \* two requests side by side: each one's workspace

vars == <<req, pc, status, body, events, consumer, fs, temp_dir, cmd, child, plan,
          cpos, closed, buf, got, stdout_lines, stderr_lines, waited, ws>>

childVars == <<child, plan, cpos, closed, buf>>
drainVars == <<got, stdout_lines, stderr_lines>>
respVars  == <<status, body, events, consumer>>

NoDir == <<>>
TempDir == Append(TmpRoot, TempDirName)

\* the requests handled side by side, and the names mkdtemp can come up with
Pair == {1, 2}
TempNames == {"aider_tmp1", "aider_tmp2"}
NoWorkspace(m) == [st |-> "idle", dir |-> NoDir, files |-> m, wrote |-> {}]

InitOne ==
    /\ req = NoRequest
    /\ pc = "idle"
    /\ status = 0
    /\ body = NoResult
    /\ events = <<>>
    /\ consumer = "none"
    /\ fs = [dirs |-> {RootDir, TmpRoot}, files |-> {}]
    /\ temp_dir = NoDir
    /\ cmd = NoCmd
    /\ child = "none"
    /\ plan = <<>>
    /\ cpos = 1
    /\ closed = [ch \in Channels |-> FALSE]
    /\ buf = [ch \in Channels |-> <<>>]
    /\ got = [ch \in Channels |-> Pending]
    /\ stdout_lines = <<>>
    /\ stderr_lines = <<>>
    /\ waited = FALSE

Init == InitOne /\ ws = [r \in Pair |-> NoWorkspace(NoFiles)]

\* ----------------------------------------------------------------- handler
\* POST /run-aider arrives; the body is validated against AiderRequest
ReceiveFrom(R) ==
    /\ pc = "idle"
    /\ \E r \in R :
          /\ req' = r
          /\ IF Validate(r)
             THEN pc' = "handler" /\ status' = status
             ELSE pc' = "done" /\ status' = 422
    /\ UNCHANGED <<ws, body, events, consumer, fs, temp_dir, cmd, childVars, drainVars, waited>>

Receive == ReceiveFrom(Requests)

\* collect_aider_output up to its first await: the temporary directory, the
\* files, the command.  An exception from open() leaves the with block, which
\* removes the directory, and run_aider answers 500.
Materialize ==
    /\ pc = "handler"
    /\ LET made == MkDTemp(fs, TempDir)
           w == IF Truthy(req.files)
                THEN WriteFiles(made, TempDir, req.files.items)
                ELSE [ok |-> TRUE, fs |-> made]
       IN  /\ temp_dir' = TempDir
           /\ IF w.ok
              THEN /\ fs' = w.fs
                   /\ cmd' = BuildCmd(req, TempDir)
                   /\ pc' = "spawning"
                   /\ status' = status
              ELSE /\ fs' = Cleanup(w.fs, TempDir)
                   /\ cmd' = cmd
                   /\ pc' = "done"
                   /\ status' = 500
    /\ UNCHANGED <<ws, req, body, events, consumer, childVars, drainVars, waited>>

\* (variant) no try around create_subprocess_exec: the exception leaves the
\* with block and run_aider turns it into a 500
SpawnFail_Raises ==
    /\ pc = "spawning"
    /\ child' = "failed"
    /\ fs' = Cleanup(fs, temp_dir)
    /\ status' = 500
    /\ pc' = "done"
    /\ UNCHANGED <<ws, req, body, events, consumer, temp_dir, cmd, plan, cpos, closed, buf,
                   drainVars, waited>>

\* create_subprocess_exec raises: the dict is returned, the with block removes
\* the directory, and run_aider wraps the dict by the request's mode
SpawnFail ==
    /\ pc = "spawning"
    /\ child' = "failed"
    /\ fs' = Cleanup(fs, temp_dir)
    /\ status' = 200
    /\ pc' = "done"
    /\ IF req.stream
       THEN /\ events' = [i \in 1..Len(DictKeys(LaunchFailure)) |->
                             Message(DictKeys(LaunchFailure)[i])]
            /\ consumer' = "connected"
            /\ body' = body
       ELSE /\ body' = LaunchFailure
            /\ UNCHANGED <<events, consumer>>
    /\ UNCHANGED <<ws, req, temp_dir, cmd, plan, cpos, closed, buf, drainVars, waited>>

\* create_subprocess_exec returns.  Streaming: event_generator() is created
\* and returned, the with block removes the directory, run_aider answers with
\* the EventSourceResponse.  Aggregate: the drain loop starts.
SpawnOk ==
    /\ pc = "spawning"
    /\ child' = "running"
    /\ \E p \in Plans : plan' = p
    /\ pc' = "drain"
    /\ IF req.stream
       THEN /\ fs' = Cleanup(fs, temp_dir)
            /\ status' = 200
            /\ consumer' = "connected"
       ELSE UNCHANGED <<fs, status, consumer>>
    /\ UNCHANGED <<ws, req, body, events, temp_dir, cmd, cpos, closed, buf, drainVars, waited>>

\* ------------------------------------------------------------------- child
\* the child's next operation; a write blocks while the channel is full
ChildStep ==
    /\ child = "running"
    /\ cpos <= Len(plan)
    /\ LET o == plan[cpos]
       IN  IF o.op = "write"
           THEN /\ Len(buf[o.ch]) + Len(o.data) <= Cap
                /\ buf' = [buf EXCEPT ![o.ch] = @ \o o.data]
                /\ closed' = closed
           ELSE /\ closed' = [closed EXCEPT ![o.ch] = TRUE]
                /\ buf' = buf
    /\ cpos' = cpos + 1
    /\ UNCHANGED <<ws, req, pc, respVars, fs, temp_dir, cmd, child, plan, drainVars, waited>>

\* the child exits at the end of its program; exiting closes both channels
ChildExit ==
    /\ child = "running"
    /\ cpos > Len(plan)
    /\ child' = "exited"
    /\ closed' = [ch \in Channels |-> TRUE]
    /\ UNCHANGED <<ws, req, pc, respVars, fs, temp_dir, cmd, plan, cpos, buf, drainVars, waited>>

\* --------------------------------------------------------- streaming drain
\* process.<ch>.readline() inside gather finishes
ReadLine(ch) ==
    /\ pc = "drain" /\ req.stream
    /\ consumer = "connected"
    /\ got[ch].st = "pending"
    /\ got[Other(ch)].st # "raised"
    /\ LET r == ReadLineOf(buf[ch], closed[ch])
       IN  /\ r.st # "wait"
           /\ got' = [got EXCEPT ![ch] = [st |-> r.st, data |-> r.data]]
           /\ buf' = [buf EXCEPT ![ch] = r.rest]
    /\ UNCHANGED <<ws, req, pc, respVars, fs, temp_dir, cmd, child, plan, cpos, closed,
                   stdout_lines, stderr_lines, waited>>

\* gather returns (both reads finished) or raises (one read raised); the body
\* of the loop runs and yields its events
StreamPass ==
    /\ pc = "drain" /\ req.stream
    /\ consumer = "connected"
    /\ \/ \E ch \in Channels : got[ch].st = "raised"
       \/ \A ch \in Channels : got[ch].st = "data"
    /\ LET r == GeneratorPass(got["stdout"], got["stderr"], stdout_lines, stderr_lines)
       IN  /\ events' = events \o r.events
           /\ stdout_lines' = r.so
           /\ stderr_lines' = r.se
           /\ pc' = IF r.brk THEN "done" ELSE "drain"
    /\ got' = [ch \in Channels |-> Pending]
    /\ UNCHANGED <<ws, req, status, body, consumer, fs, temp_dir, cmd, childVars, waited>>

\* the caller goes away mid-stream: the response task is cancelled and the
\* generator is closed where it is suspended
Disconnect ==
    /\ pc = "drain" /\ req.stream
    /\ consumer = "connected"
    /\ consumer' = "gone"
    /\ pc' = "done"
    /\ UNCHANGED <<ws, req, status, body, events, fs, temp_dir, cmd, childVars, drainVars, waited>>

\* --------------------------------------------------------- aggregate drain
\* process.<ch>.read() inside gather takes what the buffer holds
ReadBlock(ch) ==
    /\ pc = "drain" /\ ~req.stream
    /\ got[ch].st = "pending"
    /\ buf[ch] # <<>>
    /\ LET r == ReadBlockOf(buf[ch])
       IN  /\ got' = [got EXCEPT ![ch] = [st |-> "pending", data |-> @.data \o r.data]]
           /\ buf' = [buf EXCEPT ![ch] = r.rest]
    /\ UNCHANGED <<ws, req, pc, respVars, fs, temp_dir, cmd, child, plan, cpos, closed,
                   stdout_lines, stderr_lines, waited>>

\* process.<ch>.read() sees end of stream and returns what it has collected
ReadEnd(ch) ==
    /\ pc = "drain" /\ ~req.stream
    /\ got[ch].st = "pending"
    /\ buf[ch] = <<>> /\ closed[ch]
    /\ got' = [got EXCEPT ![ch] = [st |-> "data", data |-> @.data]]
    /\ UNCHANGED <<ws, req, pc, respVars, fs, temp_dir, cmd, childVars,
                   stdout_lines, stderr_lines, waited>>

\* gather returns; the body of the aggregate loop runs
AggregateStep ==
    /\ pc = "drain" /\ ~req.stream
    /\ \A ch \in Channels : got[ch].st = "data"
    /\ LET r == AggregatePass(got["stdout"], got["stderr"], stdout_lines, stderr_lines)
       IN  /\ stdout_lines' = r.so
           /\ stderr_lines' = r.se
           /\ pc' = IF r.brk THEN "wait" ELSE "drain"
    /\ got' = [ch \in Channels |-> Pending]
    /\ UNCHANGED <<ws, req, respVars, fs, temp_dir, cmd, childVars, waited>>

\* process.wait() returns; the result is built, classified and returned, the
\* with block removes the directory, run_aider answers with the JSONResponse
AggregateFinish ==
    /\ pc = "wait"
    /\ child = "exited"
    /\ waited' = TRUE
    /\ body' = MakeResult(stdout_lines, stderr_lines)
    /\ fs' = Cleanup(fs, temp_dir)
    /\ status' = 200
    /\ pc' = "done"
    /\ UNCHANGED <<ws, req, events, consumer, temp_dir, cmd, childVars, drainVars>>

Next ==
    \/ Receive
    \/ Materialize
    \/ SpawnFail
    \/ SpawnOk
    \/ ChildStep
    \/ ChildExit
    \/ \E ch \in Channels : ReadLine(ch)
    \/ StreamPass
    \/ Disconnect
    \/ \E ch \in Channels : ReadBlock(ch)
    \/ \E ch \in Channels : ReadEnd(ch)
    \/ AggregateStep
    \/ AggregateFinish

Spec == Init /\ [][Next]_vars

\* ------------------------------------------------- every toggle combination
\* the requests with the three toggles at every combination of values
AllRequests ==
    {[message |-> m, files |-> f, auto_commits |-> a, dirty_commits |-> d,
      dry_run |-> y, root |-> ".", stream |-> s] :
        m \in {MISSING, "add a docstring"}, f \in FileMaps \cup {NoFiles},
        a \in BOOLEAN, d \in BOOLEAN, y \in BOOLEAN, s \in BOOLEAN}

ReceiveAny == ReceiveFrom(AllRequests)

\* the handler up to the launch of the child, for every request
NextArgv ==
    \/ ReceiveAny
    \/ Materialize
    \/ SpawnFail
    \/ SpawnOk

SpecArgv == Init /\ [][NextArgv]_vars

\* ------------------------------------------------------ two requests at once
\* the paths the loop over files.items() has written when it ends or raises
RECURSIVE PathsWritten(_, _, _)
PathsWritten(fsys, dir, items) ==
    IF items = <<>> THEN {}
    ELSE LET w == WriteFile(fsys, PathJoin(dir, Head(items).name), Head(items).content)
         IN  IF w.ok
             THEN {Resolve(<<>>, PathJoin(dir, Head(items).name))}
                  \cup PathsWritten(w.fs, dir, Tail(items))
             ELSE {}

\* two requests arrive with the same files mapping
InitPair ==
    /\ InitOne
    /\ \E m \in FileMaps \cup {NoFiles} : ws = [r \in Pair |-> NoWorkspace(m)]

\* request r enters the with block: mkdtemp picks a name that is not taken,
\* the files are written; an exception from open() removes the directory
Enter(r) ==
    /\ ws[r].st = "idle"
    /\ \E n \in TempNames :
          LET d == Append(TmpRoot, n)
              made == MkDTemp(fs, d)
              items == IF Truthy(ws[r].files) THEN ws[r].files.items ELSE <<>>
              w == WriteFiles(made, d, items)
          IN  /\ d \notin fs.dirs
              /\ fs' = IF w.ok THEN w.fs ELSE Cleanup(w.fs, d)
              /\ ws' = [ws EXCEPT ![r] = [st |-> IF w.ok THEN "live" ELSE "released",
                                          dir |-> d, files |-> @.files,
                                          wrote |-> PathsWritten(made, d, items)]]
    /\ UNCHANGED <<req, pc, respVars, temp_dir, cmd, childVars, drainVars, waited>>

\* request r leaves the with block: its directory is removed
Exit(r) ==
    /\ ws[r].st = "live"
    /\ fs' = Cleanup(fs, ws[r].dir)
    /\ ws' = [ws EXCEPT ![r].st = "released"]
    /\ UNCHANGED <<req, pc, respVars, temp_dir, cmd, childVars, drainVars, waited>>

NextPair ==
    \/ \E r \in Pair : Enter(r)
    \/ \E r \in Pair : Exit(r)

SpecPair == InitPair /\ [][NextPair]_vars

\* ================================================================== claims
Terminal(e) == e.event \in {"complete", "error"}
Spawned == child \in {"running", "exited"}
StreamEnded == req.stream /\ pc = "done" /\ consumer = "connected"

\* the files materialization was asked to write, as open() resolves them
MaterializedPaths == {Resolve(<<>>, cmd.paths[i]) : i \in 1..Len(cmd.paths)}
WorkspaceIntact ==
    /\ temp_dir \in fs.dirs
    /\ \A q \in MaterializedPaths : \E f \in fs.files : f.path = q

\* C1: in both modes the workspace is released last: while the child runs or
\* its output is still being drained (or awaited), the temporary directory and
\* the files written into it exist.
C1_WorkspaceReleasedLast ==
    (child = "running" \/ pc \in {"drain", "wait"}) => WorkspaceIntact

\* C2: on every path, once the handling of a request has ended, the temporary
\* directory made for it is gone, with everything under it.
C2_WorkspaceRemoved ==
    (pc = "done" /\ temp_dir # NoDir) =>
        /\ \A d \in fs.dirs : ~IsPrefix(temp_dir, d)
        /\ \A f \in fs.files : ~IsPrefix(temp_dir, f.path)

\* C2 witness: an aggregate request with materialized files has ended after
\* an exception broke its drain
C2_Witness ==
    /\ pc = "done" /\ ~req.stream /\ status = 200
    /\ cmd.paths # <<>>
    /\ Contains(body.stderr, AGG_ERROR_LINE)

\* C3: in streaming mode with a spawned child, a terminal event (complete or
\* error) is only ever the last event sent, and a stream that ran to its end
\* ends with one: exactly one terminal event, nothing after it.
C3_OneTerminalEvent ==
    (req.stream /\ Spawned) =>
        /\ \A i \in 1..Len(events) : Terminal(events[i]) => i = Len(events)
        /\ StreamEnded => (events # <<>> /\ Terminal(events[Len(events)]))

\* C3 witness: a stream that ended with an error event after progress events
C3_Witness ==
    /\ StreamEnded /\ Spawned
    /\ Len(events) >= 2
    /\ events[Len(events)].event = "error"
    /\ events[1].event = "progress"

\* C4: a failed launch raises nothing past collect_aider_output, runs no drain,
\* and is reported as the terminal outcome: one error event when streaming, a
\* result with empty raw-stdout and non-empty raw-stderr otherwise; the
\* workspace is released.
C4_LaunchFailureReported ==
    child = "failed" =>
        /\ status = 200
        /\ stdout_lines = <<>> /\ stderr_lines = <<>> /\ ~waited
        /\ temp_dir \notin fs.dirs
        /\ req.stream => (Len(events) = 1 /\ events[1].event = "error")
        /\ ~req.stream => (body.stdout = <<>> /\ body.stderr # <<>>)

\* a read on ch is in progress / cannot finish with what the channel holds
Reading(ch) == pc = "drain" /\ got[ch].st = "pending"
ReadStalled(ch) ==
    IF req.stream THEN ReadLineOf(buf[ch], closed[ch]).st = "wait"
    ELSE buf[ch] = <<>> /\ ~closed[ch]
ChildBlockedOn(ch) ==
    /\ child = "running" /\ cpos <= Len(plan)
    /\ plan[cpos].op = "write" /\ plan[cpos].ch = ch
    /\ Len(buf[ch]) + Len(plan[cpos].data) > Cap

\* C5: the drain never waits on a read of one channel, with no read on the
\* other, while the child is blocked writing to that other, full channel.
C5_NoCrossChannelDeadlock ==
    \A ch \in Channels :
        ~(Reading(ch) /\ ReadStalled(ch) /\ ~Reading(Other(ch)) /\ ChildBlockedOn(Other(ch)))

\* C6: once the caller of a stream has gone away and the generator is closed,
\* the child process is not left running.
C6_DisconnectTerminatesChild ==
    consumer = "gone" => child # "running"

\* what aggregate mode makes of the bytes o (stdout) and e (stderr): the first
\* pass takes everything, the second sees two empty reads
AggregateResultOf(o, e) ==
    LET r == AggregatePass(Data(o), Data(e), <<>>, <<>>)
    IN  MakeResult(r.so, r.se)

\* C7: the complete event of a stream carries the raw-stdout, raw-stderr and
\* error that aggregate mode returns for the same bytes from the child.
C7_ModesAgree ==
    \A i \in 1..Len(events) :
        events[i].event = "complete" =>
            events[i].result = AggregateResultOf(WrittenBy(plan, cpos - 1, "stdout"),
                                                 WrittenBy(plan, cpos - 1, "stderr"))

\* the final results delivered so far: the aggregate body, the complete event
FinalResults ==
    (IF ~req.stream /\ pc = "done" /\ status = 200 THEN {body} ELSE {})
    \cup {events[i].result : i \in {j \in 1..Len(events) : events[j].event = "complete"}}

\* C8: the error of a final result follows from its raw-stdout alone:
\* troubleshooting link without the keys page gives "something went wrong",
\* both give the longer message, no troubleshooting link gives no error field.
C8_Classification ==
    \A r \in FinalResults :
        LET link == \E i \in 1..Len(r.stdout) : r.stdout[i] = TROUBLESHOOTING
            keys == \E i \in 1..Len(r.stdout) : r.stdout[i] = MODELS_AND_KEYS
        IN  /\ (link /\ ~keys) => r.error = SOMETHING_WRONG
            /\ (link /\ keys) => r.error = KEY_NOT_FOUND
            /\ ~link => r.error = NoError

\* C8 witness: a final result whose raw-stdout has the keys page but not the
\* troubleshooting link
C8_Witness ==
    \E r \in FinalResults :
        /\ \E i \in 1..Len(r.stdout) : r.stdout[i] = MODELS_AND_KEYS
        /\ \A i \in 1..Len(r.stdout) : r.stdout[i] # TROUBLESHOOTING

\* C9: a request with files = {} is answered 422 before a workspace is made
\* and before a child is spawned.
C9_EmptyFilesRejected ==
    (pc # "idle" /\ req.files.present /\ req.files.items = <<>>) =>
        (status = 422 /\ temp_dir = NoDir /\ child = "none")

\* a files key that open() resolves to a place outside the temporary directory
Escapes(name) == ~IsPrefix(TempDir, Resolve(<<>>, PathJoin(TempDir, name)))

\* C10: every file materialization writes lies under the temporary directory,
\* and a request with an escaping key never gets a child spawned.
C10_WritesConfined ==
    /\ \A f \in fs.files : IsPrefix(TempDir, f.path)
    /\ (\E i \in 1..Len(req.files.items) : Escapes(req.files.items[i].name)) =>
           child = "none"

\* the complete events sent so far
CompleteEvents == {i \in 1..Len(events) : events[i].event = "complete"}

\* C11: the final outcome is delivered only once the child has exited and
\* process.wait() has returned: the complete event of a stream, and the
\* result of an aggregate request.
C11_ExitAwaitedBeforeOutcome ==
    /\ CompleteEvents # {} => (child = "exited" /\ waited)
    /\ (~req.stream /\ pc = "done" /\ Spawned) => (child = "exited" /\ waited)

\* the content of the progress events of channel ch among the first n events
RECURSIVE ProgressOf(_, _, _)
ProgressOf(evs, n, ch) ==
    IF n = 0 THEN <<>>
    ELSE ProgressOf(evs, n - 1, ch)
         \o (IF evs[n].event = "progress" /\ evs[n].type = ch
             THEN <<evs[n].content>> ELSE <<>>)

\* the lines of the bytes b as the child wrote them, each without its
\* trailing whitespace
StrippedLines(b) == [i \in 1..Len(SplitLines(b)) |-> RStrip(SplitLines(b)[i])]

\* C12: in streaming mode the progress events of one channel are the lines
\* the child wrote on that channel, in the order written, none twice: they
\* are always a prefix of the written lines.
C12_SameChannelOrder ==
    (req.stream /\ Spawned) =>
        \A ch \in Channels :
            IsPrefix(ProgressOf(events, Len(events), ch),
                     StrippedLines(WrittenBy(plan, cpos - 1, ch)))

\* C12 witness: two stdout lines emitted with a stderr line between them
C12_Witness ==
    /\ req.stream /\ Spawned
    /\ Len(ProgressOf(events, Len(events), "stdout")) >= 2
    /\ \E i, j, k \in 1..Len(events) :
          /\ i < j /\ j < k
          /\ events[i].event = "progress" /\ events[i].type = "stdout"
          /\ events[j].event = "progress" /\ events[j].type = "stderr"
          /\ events[k].event = "progress" /\ events[k].type = "stdout"
          /\ events[i].content # events[k].content

\* the flag the code picks for a toggle
FlagOf(on, name) == IF on THEN "--" \o name ELSE "--no-" \o name
LaunchAttempted == child # "none"
FilesGiven == IF req.files.present THEN req.files.items ELSE <<>>

Plain(name) == ~name.abs /\ Len(name.parts) = 1 /\ name.parts[1] # ".."
PlainRequest ==
    /\ pc # "idle"
    /\ req.message # MISSING
    /\ req.files.present /\ req.files.items # <<>>
    /\ \A i \in 1..Len(req.files.items) : Plain(req.files.items[i].name)

\* C14: a request with a message and a non-empty files mapping of plain names
\* is answered 200, never 500, whatever the toggles and whatever the child
\* does; while an aggregate request is unanswered its handling can go on.
C14_PlainRequestAnswered200 ==
    PlainRequest =>
        /\ status \in {0, 200}
        /\ pc = "done" => status = 200
        /\ (~req.stream /\ pc # "done") => ENABLED Next

\* C14 witness: such a request answered 200 after the launch failed
C14_Witness ==
    PlainRequest /\ pc = "done" /\ child = "failed" /\ status = 200 /\ req.dry_run

\* the paths request r wrote inside / outside its own directory
OwnFiles(r) == {p \in ws[r].wrote : IsPrefix(ws[r].dir, p)}
StrayFiles(r) == ws[r].wrote \ OwnFiles(r)

\* C15: two requests with the same files mapping have distinct temporary
\* directories; while a request is inside its with block its directory and
\* files are there whatever the other request does (release included); and
\* the requests share no state: neither writes a path the other wrote,
\* except inside its own directory.
C15_IndependentWorkspaces ==
    \A r \in Pair : \A q \in Pair \ {r} :
        /\ (ws[r].st = "live" /\ ws[q].st = "live") =>
              (ws[r].dir # ws[q].dir /\ OwnFiles(r) \cap OwnFiles(q) = {})
        /\ ws[r].st = "live" =>
              /\ ws[r].dir \in fs.dirs
              /\ \A p \in OwnFiles(r) : [path |-> p, content |-> CONTENT] \in fs.files
        /\ StrayFiles(r) \cap ws[q].wrote = {}

\* the lines of the bytes b as streaming mode keeps them: stripped, one line
\* end each
RECURSIVE Normalized(_)
Normalized(b) ==
    IF b = <<>> THEN <<>>
    ELSE LET i == FindNL(b, 1)
         IN  IF i = 0 THEN RStrip(b) \o <<NL>>
             ELSE RStrip(SubSeq(b, 1, i)) \o <<NL>> \o Normalized(SubSeq(b, i + 1, Len(b)))

Drained == \A ch \in Channels : closed[ch] /\ buf[ch] = <<>>
NoBadBytes == \A ch \in Channels : BAD \notin Range(WrittenBy(plan, cpos - 1, ch))

\* C16: absent a read exception the drain loop is left only when both
\* channels have returned end-of-stream, so the final raw-stdout and
\* raw-stderr hold every line the child wrote on that channel, in order
\* (streaming: each line stripped and ended by one line end; aggregate: the
\* bytes as written), lines written after the other channel closed included.
C16_DrainToEndOfBoth ==
    /\ \A i \in CompleteEvents :
          /\ Drained
          /\ events[i].result.stdout = Normalized(WrittenBy(plan, cpos - 1, "stdout"))
          /\ events[i].result.stderr = Normalized(WrittenBy(plan, cpos - 1, "stderr"))
    /\ (~req.stream /\ pc \in {"wait", "done"} /\ Spawned /\ NoBadBytes) =>
          /\ Drained
          /\ Join(stdout_lines) = WrittenBy(plan, cpos - 1, "stdout")
          /\ Join(stderr_lines) = WrittenBy(plan, cpos - 1, "stderr")

\* C16 witness: a stream completed whose child closed stdout first and wrote
\* a stderr line afterwards
C16_Witness ==
    /\ CompleteEvents # {}
    /\ Len(plan) >= 2
    /\ plan[1].op = "close" /\ plan[1].ch = "stdout"
    /\ plan[2].op = "write" /\ plan[2].ch = "stderr"
    /\ events[Len(events)].result.stderr # <<>>

\* C17: in streaming mode a line read from one channel can be emitted
\* without the other channel producing a line or closing: once a read has
\* returned a line, the generator can go on without a step of the child.
C17_EmitsWithoutOtherChannel ==
    \A ch \in Channels :
        (req.stream /\ pc = "drain" /\ got[ch].st = "data" /\ got[ch].data # <<>>) =>
            ENABLED (StreamPass \/ ReadLine(Other(ch)))

\* the drain's exception branch has run
ErrorEvents == {i \in 1..Len(events) : events[i].event = "error"}
AggregateFailed == ~req.stream /\ Spawned /\ pc \in {"wait", "done"} /\ ~NoBadBytes

\* C18: an exception in the drain stops it, escapes nowhere and still gives
\* an outcome.  Aggregate: the loop is left for process.wait(), which the
\* child's exit ends; the result is answered 200 with the stdout text taken
\* before the failure and the failure description ending raw-stderr.
\* Streaming: the error event is the last event and ends the stream.
C18_DrainExceptionHandled ==
    /\ Spawned => status # 500
    /\ AggregateFailed =>
          /\ BAD \notin Range(WrittenBy(plan, cpos - 1, "stdout")) =>
                Join(stdout_lines) = WrittenBy(plan, cpos - 1, "stdout")
          /\ Len(stderr_lines) >= 1 /\ stderr_lines[Len(stderr_lines)] = AGG_ERROR_LINE
          /\ pc = "wait" => ENABLED (ChildStep \/ ChildExit \/ AggregateFinish)
          /\ pc = "done" =>
                /\ status = 200
                /\ body.stdout = Join(stdout_lines)
                /\ Contains(body.stderr, AGG_ERROR_LINE)
    /\ \A i \in ErrorEvents : i = Len(events) /\ pc = "done"
    /\ \A ch \in Channels :
          (req.stream /\ pc = "drain" /\ got[ch].st = "raised") => ENABLED StreamPass

\* C18 witness: an aggregate request answered after its drain failed, with
\* stdout text taken before the failure
C18_Witness ==
    /\ AggregateFailed /\ pc = "done"
    /\ body.stdout # <<>>
    /\ Contains(body.stderr, AGG_ERROR_LINE)

\* C19: a key naming a file in a subdirectory of the workspace is
\* materialized (directories made, content written) and the request goes on
\* to launch the child; it does not fail.
C19_SubdirectoryKeyMaterialized ==
    (/\ pc \notin {"idle", "handler"}
     /\ req.message # MISSING
     /\ \E i \in 1..Len(req.files.items) : req.files.items[i].name = F_sub
     /\ \A i \in 1..Len(req.files.items) : ~Escapes(req.files.items[i].name)) =>
        /\ status # 500
        /\ LaunchAttempted \/ pc = "spawning"
        /\ Append(TempDir, "pkg") \in fs.dirs \/ TempDir \notin fs.dirs
        /\ PathJoin(TempDir, F_sub) \in Range(cmd.paths)

\* C20: the raw-stdout of the complete event is the content of the stdout
\* progress events sent before it, in order, each followed by one line end;
\* likewise raw-stderr and the stderr progress events.
C20_CompleteMatchesProgress ==
    \A i \in CompleteEvents :
        /\ events[i].result.stdout
              = Join([k \in 1..Len(ProgressOf(events, i - 1, "stdout")) |->
                         ProgressOf(events, i - 1, "stdout")[k] \o <<NL>>])
        /\ events[i].result.stderr
              = Join([k \in 1..Len(ProgressOf(events, i - 1, "stderr")) |->
                         ProgressOf(events, i - 1, "stderr")[k] \o <<NL>>])

\* C20 witness: a complete event after progress events of both channels,
\* one of them for a line that had trailing whitespace
C20_Witness ==
    /\ CompleteEvents # {}
    /\ ProgressOf(events, Len(events), "stdout") # <<>>
    /\ ProgressOf(events, Len(events), "stderr") # <<>>
    /\ Contains(WrittenBy(plan, cpos - 1, "stdout"), <<SP, NL>>)

====
